---------------------------- MODULE Spec2Model ----------------------------
(* A model of the directed, weighted graph store (Graph, Vertex), of its   *)
(* A* search (ShortestPathWithHeuristic), of its gob encoding, and of      *)
(* concurrent callers synchronised by the registry's and the vertices'     *)
(* sync.RWMutex.                                                           *)
(*                                                                         *)
(* Vertices are heap objects: the registry maps a key to a vertex          *)
(* reference and the edge maps are keyed by vertex references, as in the   *)
(* source (map[*Vertex]int).  A reference is an index into mem, the        *)
(* sequence of every Vertex ever allocated; Nil is the nil pointer.  A     *)
(* deleted vertex stays in mem (a caller may still hold it), it is only    *)
(* unreachable from the registry.                                          *)
EXTENDS Integers, Sequences, FiniteSets, TLC

\* ------------------------------------------------------------------ bounds
\* Number of API calls in one history of the sequential client.
MaxOps == 5
\* Largest edge weight (the weights used are 0, 1 and MaxWeight).
MaxWeight == 2
\* Largest heuristic estimate (the estimates used are 0 and MaxH).
MaxH == 2
\* Largest number of edges of a graph a search is run on.
MaxEdges == 4

\* The keys the client uses (keys of the repository's tests).
Keys == {"1", "2", "3"}
\* The values stored (the tests store 123 and 678).
Values == {123, 678}
\* The weights passed to Connect.
Weights == {0, 1, MaxWeight}

\* The nil *Vertex.
Nil == 0

VARIABLES
    vertices,   \* Graph.vertices: the map key -> vertex reference
    mem,        \* every Vertex allocated so far, by reference
    ret,        \* the last completed call: its name and what it returned
    calls,      \* number of calls made so far
    \* ---- one ShortestPathWithHeuristic query
    pc,         \* position of the query: "idle", "call", "loop", "range", "done"
    startKey,   \* argument startKey
    endKey,     \* argument endKey
    heuristic,  \* argument heuristic, as the map key -> estimate to endKey
    openQueue,  \* the priority queue of open items
    openList,   \* map[*Vertex]*Item of the open vertices
    closedList, \* map[*Vertex]*Item of the closed vertices
    current,    \* the vertex popped last
    pending,    \* neighbours of current the range loop has not visited yet
    path,       \* result path
    exists,     \* result exists
    \* ---- the client's side
    handle,     \* the *Vertex the client got from its last Get
    th,         \* the concurrent callers: each one's call, position, locals
    locks       \* who holds, and who waits for, each sync.RWMutex

graphVars == <<vertices, mem>>
searchVars == <<pc, startKey, endKey, heuristic, openQueue, openList,
                closedList, current, pending, path, exists>>
threadVars == <<th, locks>>

\* The goroutines that call the API concurrently, and the goroutine that
\* runs the query.
Threads == {"t1", "t2"}

QueryThread == "q"

\* A goroutine that makes no call.
IdleThread ==
    [op |-> "none", a |-> "", b |-> "", w |-> 0, pc |-> "done",
     fromV |-> Nil, toV |-> Nil, iter |-> {}, ok |-> FALSE, weight |-> 0]

\* Every mutex is free: w holds the pairs <<mutex, goroutine>> of the write
\* locks held, r those of the read locks held, p those of the writers that
\* have announced themselves and wait for the readers to leave.
NoLocks == [w |-> {}, r |-> {}, p |-> {}]

\* No goroutine but the sequential client runs.
NoThreads ==
    /\ th = [t \in Threads |-> IdleThread]
    /\ locks = NoLocks

\* ------------------------------------------------------- map[*Vertex]int
EmptyMap == [x \in {} |-> 0]

\* m[k] = w
MapSet(m, k, w) == [x \in (DOMAIN m) \cup {k} |-> IF x = k THEN w ELSE m[x]]

\* delete(m, k)
MapDelete(m, k) == [x \in (DOMAIN m) \ {k} |-> m[x]]

\* ------------------------------------------------------------------ Graph
\* g.get(key): a missing key of a Go map reads as the zero value, nil
get(key) == IF key \in DOMAIN vertices THEN vertices[key] ELSE Nil

\* &Vertex{key, value, map[*Vertex]int{}, map[*Vertex]int{}, sync.RWMutex{}}
NewVertex(key, value) ==
    [key |-> key, value |-> value,
     incomingEdges |-> EmptyMap, outgoingEdges |-> EmptyMap]

\* What a call returns: ok is the boolean result, weight the int result.
Ret(op, ok, weight) == [op |-> op, ok |-> ok, weight |-> weight]

\* No query has been made: the search's locals do not exist yet.
NoQuery ==
    /\ pc = "idle"
    /\ startKey = ""
    /\ endKey = ""
    /\ heuristic = EmptyMap
    /\ openQueue = {}
    /\ openList = EmptyMap
    /\ closedList = EmptyMap
    /\ current = Nil
    /\ pending = {}
    /\ path = <<>>
    /\ exists = FALSE

\* New()
Init ==
    /\ vertices = EmptyMap
    /\ mem = <<>>
    /\ ret = Ret("New", TRUE, 0)
    /\ calls = 0
    /\ handle = Nil
    /\ NoThreads
    /\ NoQuery

\* A Set on a present key that replaces the whole vertex, dropping its edges.
SetValue_ResetsVertex(v, value) ==
    [mem EXCEPT ![v] = NewVertex(mem[v].key, value)]

\* v.value = value
SetValue(v, value) == [mem EXCEPT ![v].value = value]

\* Set(key, value)
Set(key, value) ==
    /\ calls < MaxOps
    /\ calls' = calls + 1
    /\ ret' = Ret("Set", TRUE, 0)
    /\ UNCHANGED <<searchVars, handle, threadVars>>
    /\ LET v == get(key) IN
       IF v = Nil
       THEN /\ mem' = Append(mem, NewVertex(key, value))
            /\ vertices' = MapSet(vertices, key, Len(mem) + 1)
       ELSE /\ mem' = SetValue(v, value)
            /\ UNCHANGED vertices

\* A Delete that also empties the maps of the deleted vertex.
StripBackReferences_ClearsOwnMaps(v) ==
    [n \in DOMAIN mem |->
        [mem[n] EXCEPT
            !.outgoingEdges = IF n = v THEN EmptyMap
                              ELSE IF n \in DOMAIN mem[v].incomingEdges
                              THEN MapDelete(@, v) ELSE @,
            !.incomingEdges = IF n = v THEN EmptyMap
                              ELSE IF n \in DOMAIN mem[v].outgoingEdges
                              THEN MapDelete(@, v) ELSE @]]

\* A Delete that runs the first loop only.
StripBackReferences_FirstLoopOnly(v) ==
    [n \in DOMAIN mem |->
        [mem[n] EXCEPT
            !.outgoingEdges = IF n \in DOMAIN mem[v].incomingEdges
                              THEN MapDelete(@, v) ELSE @]]

\* The two loops of Delete over v's neighbours: every vertex of
\* v.incomingEdges loses v from its outgoingEdges, every vertex of
\* v.outgoingEdges loses v from its incomingEdges.  v itself keeps its maps.
StripBackReferences(v) ==
    [n \in DOMAIN mem |->
        [mem[n] EXCEPT
            !.outgoingEdges = IF n \in DOMAIN mem[v].incomingEdges
                              THEN MapDelete(@, v) ELSE @,
            !.incomingEdges = IF n \in DOMAIN mem[v].outgoingEdges
                              THEN MapDelete(@, v) ELSE @]]

\* Delete(key)
Delete(key) ==
    /\ calls < MaxOps
    /\ calls' = calls + 1
    /\ UNCHANGED <<searchVars, handle, threadVars>>
    /\ LET v == get(key) IN
       IF v = Nil
       THEN /\ ret' = Ret("Delete", FALSE, 0)
            /\ UNCHANGED graphVars
       ELSE /\ mem' = StripBackReferences(v)
            /\ vertices' = MapDelete(vertices, key)
            /\ ret' = Ret("Delete", TRUE, 0)

\* The guards without the fromKey == toKey test.
ValidEndpoints_NoSelfCheck(fromKey, toKey) ==
    /\ get(fromKey) # Nil
    /\ get(toKey) # Nil

\* The guards without the toV == nil test.
ValidEndpoints_ToUnchecked(fromKey, toKey) ==
    /\ fromKey # toKey
    /\ get(fromKey) # Nil

\* The guards of Connect and Disconnect: the keys differ and both resolve.
ValidEndpoints(fromKey, toKey) ==
    /\ fromKey # toKey
    /\ get(fromKey) # Nil
    /\ get(toKey) # Nil

\* A Connect that makes new edge maps holding the new edge only.
AddEdge_ReplacesMaps(fromV, toV, weight) ==
    [n \in DOMAIN mem |->
        [mem[n] EXCEPT
            !.outgoingEdges = IF n = fromV THEN MapSet(EmptyMap, toV, weight)
                              ELSE @,
            !.incomingEdges = IF n = toV THEN MapSet(EmptyMap, fromV, weight)
                              ELSE @]]

\* A Connect that writes the outgoing side only.
AddEdge_OutgoingOnly(fromV, toV, weight) ==
    [n \in DOMAIN mem |->
        [mem[n] EXCEPT
            !.outgoingEdges = IF n = fromV THEN MapSet(@, toV, weight) ELSE @]]

\* fromV.outgoingEdges[toV] = weight; toV.incomingEdges[fromV] = weight
AddEdge(fromV, toV, weight) ==
    [n \in DOMAIN mem |->
        [mem[n] EXCEPT
            !.outgoingEdges = IF n = fromV THEN MapSet(@, toV, weight) ELSE @,
            !.incomingEdges = IF n = toV THEN MapSet(@, fromV, weight) ELSE @]]

\* Connect(fromKey, toKey, weight)
Connect(fromKey, toKey, weight) ==
    /\ calls < MaxOps
    /\ calls' = calls + 1
    /\ UNCHANGED <<vertices, searchVars, handle, threadVars>>
    /\ IF ~ValidEndpoints(fromKey, toKey)
       THEN /\ ret' = Ret("Connect", FALSE, 0)
            /\ UNCHANGED mem
       ELSE /\ mem' = AddEdge(get(fromKey), get(toKey), weight)
            /\ ret' = Ret("Connect", TRUE, 0)

\* A Disconnect that deletes from the outgoing side only.
RemoveEdge_OutgoingOnly(fromV, toV) ==
    [n \in DOMAIN mem |->
        [mem[n] EXCEPT
            !.outgoingEdges = IF n = fromV THEN MapDelete(@, toV) ELSE @]]

\* delete(fromV.outgoingEdges, toV); delete(toV.incomingEdges, fromV)
RemoveEdge(fromV, toV) ==
    [n \in DOMAIN mem |->
        [mem[n] EXCEPT
            !.outgoingEdges = IF n = fromV THEN MapDelete(@, toV) ELSE @,
            !.incomingEdges = IF n = toV THEN MapDelete(@, fromV) ELSE @]]

\* Disconnect(fromKey, toKey)
Disconnect(fromKey, toKey) ==
    /\ calls < MaxOps
    /\ calls' = calls + 1
    /\ UNCHANGED <<vertices, searchVars, handle, threadVars>>
    /\ IF ~ValidEndpoints(fromKey, toKey)
       THEN /\ ret' = Ret("Disconnect", FALSE, 0)
            /\ UNCHANGED mem
       ELSE /\ mem' = RemoveEdge(get(fromKey), get(toKey))
            /\ ret' = Ret("Disconnect", TRUE, 0)

\* Lines 362-367: the search of toV in fromV.outgoingEdges.
ScanOutgoing(fromV, toV) ==
    IF toV \in DOMAIN mem[fromV].outgoingEdges
    THEN <<TRUE, mem[fromV].outgoingEdges[toV]>>
    ELSE <<FALSE, 0>>

\* Lines 369-374: the search of fromV in toV.incomingEdges.
ScanIncoming(fromV, toV) ==
    IF fromV \in DOMAIN mem[toV].incomingEdges
    THEN <<TRUE, mem[toV].incomingEdges[fromV]>>
    ELSE <<FALSE, 0>>

\* A scan that looks the other vertex up in the maps of the opposite
\* direction (fromV.incomingEdges, toV.outgoingEdges).
ScanEdges_WrongDirection(fromV, toV) ==
    IF Cardinality(DOMAIN mem[fromV].incomingEdges)
         < Cardinality(DOMAIN mem[toV].outgoingEdges)
    THEN IF toV \in DOMAIN mem[fromV].incomingEdges
         THEN <<TRUE, mem[fromV].incomingEdges[toV]>>
         ELSE <<FALSE, 0>>
    ELSE IF fromV \in DOMAIN mem[toV].outgoingEdges
         THEN <<TRUE, mem[toV].outgoingEdges[fromV]>>
         ELSE <<FALSE, 0>>

\* The scan of IsConnected: it ranges over the smaller of
\* fromV.outgoingEdges and toV.incomingEdges and returns at the entry whose
\* key is the other vertex.
ScanEdges(fromV, toV) ==
    IF Cardinality(DOMAIN mem[fromV].outgoingEdges)
         < Cardinality(DOMAIN mem[toV].incomingEdges)
    THEN ScanOutgoing(fromV, toV)
    ELSE ScanIncoming(fromV, toV)

\* IsConnected(fromKey, toKey): (exists, weight)
IsConnected(fromKey, toKey) ==
    IF fromKey = toKey THEN <<FALSE, 0>>
    ELSE IF get(fromKey) = Nil THEN <<FALSE, 0>>
    ELSE IF get(toKey) = Nil THEN <<FALSE, 0>>
    ELSE ScanEdges(get(fromKey), get(toKey))

\* A call of IsConnected by the client.
IsConnectedCall(fromKey, toKey) ==
    /\ calls < MaxOps
    /\ calls' = calls + 1
    /\ ret' = Ret("IsConnected", IsConnected(fromKey, toKey)[1],
                  IsConnected(fromKey, toKey)[2])
    /\ UNCHANGED <<graphVars, searchVars, handle, threadVars>>

\* Get(key): the vertex of the key, or nil and the error "graph: invalid
\* key".  The client keeps what it got.
Get(key) ==
    /\ calls < MaxOps
    /\ calls' = calls + 1
    /\ handle' = get(key)
    /\ ret' = Ret("Get", get(key) # Nil, 0)
    /\ UNCHANGED <<graphVars, searchVars, threadVars>>

\* v.Key(), v.Value(), v.GetIncoming(): the field of the vertex, and the
\* zero value (empty key, nil value, nil map) on a nil vertex.
Key(v) == IF v = Nil THEN "" ELSE mem[v].key

Value(v) == IF v = Nil THEN Nil ELSE mem[v].value

GetIncoming(v) == IF v = Nil THEN EmptyMap ELSE mem[v].incomingEdges

\* ------------------------------------------------------- sync.RWMutex
\* The registry's mutex is named GraphLock, the mutex of vertex v is named v.
GraphLock == 0

WriteHeld(l) == \E t \in Threads \cup {QueryThread} : <<l, t>> \in locks.w

WriterWaits(l) == \E t \in Threads \cup {QueryThread} : <<l, t>> \in locks.p

ReadHeld(l) == \E t \in Threads \cup {QueryThread} : <<l, t>> \in locks.r

\* An RLock that does not wait for a writer.
CanRLock_IgnoresWriter(l) == TRUE

\* RLock() returns when no writer holds the mutex and none waits for it.
CanRLock(l) == ~WriteHeld(l) /\ ~WriterWaits(l)

RLock(l, t) == [locks EXCEPT !.r = @ \cup {<<l, t>>}]

RUnlock(l, t) == [locks EXCEPT !.r = @ \ {<<l, t>>}]

\* A Lock that does not wait for the readers to leave.
Acquires_IgnoresReaders(l) == TRUE

\* Lock() returns when the readers have left.
Acquires(l) == ~ReadHeld(l)

\* Lock() goes ahead when no other writer holds the mutex or waits for it;
\* the caller is inside at most one Lock() call.
CanLock(l, t) ==
    /\ \A u \in (Threads \cup {QueryThread}) \ {t} :
            <<l, u>> \notin locks.w \cup locks.p
    /\ \A x \in {GraphLock} \cup DOMAIN mem :
            <<x, t>> \in locks.p => x = l
    /\ <<l, t>> \in locks.p => Acquires(l)

\* Lock(): with the readers gone the caller holds the mutex, otherwise it
\* has announced itself (new readers wait from now on) and waits.
Lock(l, t) ==
    IF Acquires(l)
    THEN [locks EXCEPT !.w = @ \cup {<<l, t>>}, !.p = @ \ {<<l, t>>}]
    ELSE [locks EXCEPT !.p = @ \cup {<<l, t>>}]

Unlock(l, t) == [locks EXCEPT !.w = @ \ {<<l, t>>}]

\* ------------------------------------------------- the concurrent callers
\* What the steps of a concurrent caller leave alone.
clientVars == <<ret, calls, handle, searchVars>>

\* The call returns.
Return(t, ok, weight) ==
    [th EXCEPT ![t].pc = "done", ![t].ok = ok, ![t].weight = weight]

\* ---- Set(key, value), lines 178-200
\* g.Lock(), then v := g.get(key)
TSetLock(t) ==
    /\ th[t].op = "Set" /\ th[t].pc = "lock"
    /\ CanLock(GraphLock, t)
    /\ locks' = Lock(GraphLock, t)
    /\ th' = IF Acquires(GraphLock)
             THEN [th EXCEPT ![t].fromV = get(th[t].a),
                             ![t].pc = IF get(th[t].a) = Nil
                                       THEN "insert" ELSE "vlock"]
             ELSE th
    /\ UNCHANGED <<graphVars, clientVars>>

\* The key is new: the vertex is made and registered; the deferred
\* g.Unlock().
TSetInsert(t) ==
    /\ th[t].op = "Set" /\ th[t].pc = "insert"
    /\ mem' = Append(mem, NewVertex(th[t].a, th[t].w))
    /\ vertices' = MapSet(vertices, th[t].a, Len(mem) + 1)
    /\ locks' = Unlock(GraphLock, t)
    /\ th' = Return(t, TRUE, 0)
    /\ UNCHANGED clientVars

\* v.Lock()
TSetVLock(t) ==
    /\ th[t].op = "Set" /\ th[t].pc = "vlock"
    /\ CanLock(th[t].fromV, t)
    /\ locks' = Lock(th[t].fromV, t)
    /\ th' = IF Acquires(th[t].fromV) THEN [th EXCEPT ![t].pc = "write"]
             ELSE th
    /\ UNCHANGED <<graphVars, clientVars>>

\* v.value = value; v.Unlock(); the deferred g.Unlock().
TSetWrite(t) ==
    /\ th[t].op = "Set" /\ th[t].pc = "write"
    /\ mem' = SetValue(th[t].fromV, th[t].w)
    /\ locks' = [locks EXCEPT
                    !.w = @ \ {<<th[t].fromV, t>>, <<GraphLock, t>>}]
    /\ th' = Return(t, TRUE, 0)
    /\ UNCHANGED <<vertices, clientVars>>

\* ---- Delete(key), lines 203-234
\* Where Delete goes on with the vertex v: the loop over v.incomingEdges,
\* the loop over v.outgoingEdges, or the end.
DeletePhase(v, phase) ==
    IF phase = "in" /\ DOMAIN mem[v].incomingEdges # {}
    THEN [pc |-> "in", iter |-> DOMAIN mem[v].incomingEdges]
    ELSE IF DOMAIN mem[v].outgoingEdges # {}
    THEN [pc |-> "out", iter |-> DOMAIN mem[v].outgoingEdges]
    ELSE [pc |-> "unregister", iter |-> {}]

\* g.Lock(), then v := g.get(key)
TDeleteLock(t) ==
    /\ th[t].op = "Delete" /\ th[t].pc = "lock"
    /\ CanLock(GraphLock, t)
    /\ locks' = Lock(GraphLock, t)
    /\ th' = IF ~Acquires(GraphLock) THEN th
             ELSE IF get(th[t].a) = Nil THEN [th EXCEPT ![t].pc = "fail"]
             ELSE [th EXCEPT ![t].fromV = get(th[t].a),
                             ![t].pc = DeletePhase(get(th[t].a), "in").pc,
                             ![t].iter = DeletePhase(get(th[t].a), "in").iter]
    /\ UNCHANGED <<graphVars, clientVars>>

\* The key is unknown: return false; the deferred g.Unlock().
TDeleteFail(t) ==
    /\ th[t].op = "Delete" /\ th[t].pc = "fail"
    /\ locks' = Unlock(GraphLock, t)
    /\ th' = Return(t, FALSE, 0)
    /\ UNCHANGED <<graphVars, clientVars>>

\* The first loop, neighbor.Lock() for the next neighbour of
\* v.incomingEdges.
TDeleteInLock(t, neighbor) ==
    /\ th[t].op = "Delete" /\ th[t].pc = "in"
    /\ neighbor \in th[t].iter
    /\ CanLock(neighbor, t)
    /\ locks' = Lock(neighbor, t)
    /\ th' = IF Acquires(neighbor)
             THEN [th EXCEPT ![t].toV = neighbor, ![t].pc = "inLocked"]
             ELSE th
    /\ UNCHANGED <<graphVars, clientVars>>

\* delete(neighbor.outgoingEdges, v); neighbor.Unlock()
TDeleteInStrip(t) ==
    /\ th[t].op = "Delete" /\ th[t].pc = "inLocked"
    /\ mem' = [mem EXCEPT ![th[t].toV].outgoingEdges =
                                MapDelete(@, th[t].fromV)]
    /\ locks' = Unlock(th[t].toV, t)
    /\ th' = IF th[t].iter \ {th[t].toV} # {}
             THEN [th EXCEPT ![t].pc = "in", ![t].toV = Nil,
                             ![t].iter = @ \ {th[t].toV}]
             ELSE [th EXCEPT ![t].pc = DeletePhase(th[t].fromV, "out").pc,
                             ![t].toV = Nil,
                             ![t].iter = DeletePhase(th[t].fromV, "out").iter]
    /\ UNCHANGED <<vertices, clientVars>>

\* The second loop, neighbor.Lock() for the next neighbour of
\* v.outgoingEdges.
TDeleteOutLock(t, neighbor) ==
    /\ th[t].op = "Delete" /\ th[t].pc = "out"
    /\ neighbor \in th[t].iter
    /\ CanLock(neighbor, t)
    /\ locks' = Lock(neighbor, t)
    /\ th' = IF Acquires(neighbor)
             THEN [th EXCEPT ![t].toV = neighbor, ![t].pc = "outLocked"]
             ELSE th
    /\ UNCHANGED <<graphVars, clientVars>>

\* delete(neighbor.incomingEdges, v); neighbor.Unlock()
TDeleteOutStrip(t) ==
    /\ th[t].op = "Delete" /\ th[t].pc = "outLocked"
    /\ mem' = [mem EXCEPT ![th[t].toV].incomingEdges =
                                MapDelete(@, th[t].fromV)]
    /\ locks' = Unlock(th[t].toV, t)
    /\ th' = IF th[t].iter \ {th[t].toV} # {}
             THEN [th EXCEPT ![t].pc = "out", ![t].toV = Nil,
                             ![t].iter = @ \ {th[t].toV}]
             ELSE [th EXCEPT ![t].pc = "unregister", ![t].toV = Nil,
                             ![t].iter = {}]
    /\ UNCHANGED <<vertices, clientVars>>

\* delete(g.vertices, key); return true; the deferred g.Unlock().
TDeleteUnregister(t) ==
    /\ th[t].op = "Delete" /\ th[t].pc = "unregister"
    /\ vertices' = MapDelete(vertices, th[t].a)
    /\ locks' = Unlock(GraphLock, t)
    /\ th' = Return(t, TRUE, 0)
    /\ UNCHANGED <<mem, clientVars>>

\* ---- Connect(fromKey, toKey, weight), lines 267-297, and
\* ---- Disconnect(fromKey, toKey), lines 300-329
\* g.RLock(), then fromV := g.get(fromKey), toV := g.get(toKey).  The callers
\* pass two different keys.
EdgeRLock(t, op) ==
    /\ th[t].op = op /\ th[t].pc = "rlock"
    /\ CanRLock(GraphLock)
    /\ locks' = RLock(GraphLock, t)
    /\ th' = [th EXCEPT ![t].fromV = get(th[t].a), ![t].toV = get(th[t].b),
                        ![t].pc = IF ValidEndpoints(th[t].a, th[t].b)
                                  THEN "lockFrom" ELSE "fail"]
    /\ UNCHANGED <<graphVars, clientVars>>

\* A key is unknown: return false; the deferred g.RUnlock().
EdgeFail(t, op) ==
    /\ th[t].op = op /\ th[t].pc = "fail"
    /\ locks' = RUnlock(GraphLock, t)
    /\ th' = Return(t, FALSE, 0)
    /\ UNCHANGED <<graphVars, clientVars>>

\* fromV.Lock()
EdgeLockFrom(t, op) ==
    /\ th[t].op = op /\ th[t].pc = "lockFrom"
    /\ CanLock(th[t].fromV, t)
    /\ locks' = Lock(th[t].fromV, t)
    /\ th' = IF Acquires(th[t].fromV) THEN [th EXCEPT ![t].pc = "lockTo"]
             ELSE th
    /\ UNCHANGED <<graphVars, clientVars>>

\* toV.Lock()
EdgeLockTo(t, op) ==
    /\ th[t].op = op /\ th[t].pc = "lockTo"
    /\ CanLock(th[t].toV, t)
    /\ locks' = Lock(th[t].toV, t)
    /\ th' = IF Acquires(th[t].toV) THEN [th EXCEPT ![t].pc = "write"]
             ELSE th
    /\ UNCHANGED <<graphVars, clientVars>>

\* fromV.Unlock(); toV.Unlock(); return true; the deferred g.RUnlock().
EdgeUnlock(t) ==
    [locks EXCEPT !.w = @ \ {<<th[t].fromV, t>>, <<th[t].toV, t>>},
                  !.r = @ \ {<<GraphLock, t>>}]

\* Line 55: the query is in its range loop over v.outgoingEdges, the map
\* itself, which GetOutgoing handed out after v.RUnlock() (lines 127-131);
\* the query holds no lock of v while it ranges.
Ranging(v) == pc = "range" /\ current = v

\* Line 289 reached while the query ranges over fromV.outgoingEdges: an
\* entry created during the iteration may be produced by it or skipped,
\* whether or not the loop has produced that neighbour before.
PendingAfterInsert(fromV, toV) ==
    IF Ranging(fromV) /\ toV \notin DOMAIN mem[fromV].outgoingEdges
    THEN {pending, pending \cup {toV}}
    ELSE {pending}

TConnectRLock(t) == EdgeRLock(t, "Connect")

TConnectFail(t) == EdgeFail(t, "Connect")

TConnectLockFrom(t) == EdgeLockFrom(t, "Connect")

TConnectLockTo(t) == EdgeLockTo(t, "Connect")

\* The two writes of Connect, then the unlocks.
TConnectWrite(t) ==
    /\ th[t].op = "Connect" /\ th[t].pc = "write"
    /\ mem' = AddEdge(th[t].fromV, th[t].toV, th[t].w)
    /\ pending' \in PendingAfterInsert(th[t].fromV, th[t].toV)
    /\ locks' = EdgeUnlock(t)
    /\ th' = Return(t, TRUE, 0)
    /\ UNCHANGED <<vertices, ret, calls, handle, pc, startKey, endKey,
                   heuristic, openQueue, openList, closedList, current,
                   path, exists>>

TDisconnectRLock(t) == EdgeRLock(t, "Disconnect")

TDisconnectFail(t) == EdgeFail(t, "Disconnect")

TDisconnectLockFrom(t) == EdgeLockFrom(t, "Disconnect")

TDisconnectLockTo(t) == EdgeLockTo(t, "Disconnect")

\* The two deletes of Disconnect, then the unlocks.
TDisconnectWrite(t) ==
    /\ th[t].op = "Disconnect" /\ th[t].pc = "write"
    /\ mem' = RemoveEdge(th[t].fromV, th[t].toV)
    /\ locks' = EdgeUnlock(t)
    /\ th' = Return(t, TRUE, 0)
    /\ UNCHANGED <<vertices, clientVars>>

\* ---- IsConnected(fromKey, toKey), lines 333-378
\* g.RLock(); fromV := g.get(fromKey); toV := g.get(toKey); g.RUnlock(): the
\* registry is read in one piece and let go before any vertex is locked.
TIsConnectedResolve(t) ==
    /\ th[t].op = "IsConnected" /\ th[t].pc = "rlock"
    /\ CanRLock(GraphLock)
    /\ th' = IF ValidEndpoints(th[t].a, th[t].b)
             THEN [th EXCEPT ![t].fromV = get(th[t].a),
                             ![t].toV = get(th[t].b),
                             ![t].pc = "rlockFrom"]
             ELSE Return(t, FALSE, 0)
    /\ UNCHANGED <<graphVars, locks, clientVars>>

\* fromV.RLock()
TIsConnectedRLockFrom(t) ==
    /\ th[t].op = "IsConnected" /\ th[t].pc = "rlockFrom"
    /\ CanRLock(th[t].fromV)
    /\ locks' = RLock(th[t].fromV, t)
    /\ th' = [th EXCEPT ![t].pc = "rlockTo"]
    /\ UNCHANGED <<graphVars, clientVars>>

\* toV.RLock()
TIsConnectedRLockTo(t) ==
    /\ th[t].op = "IsConnected" /\ th[t].pc = "rlockTo"
    /\ CanRLock(th[t].toV)
    /\ locks' = RLock(th[t].toV, t)
    /\ th' = [th EXCEPT ![t].pc = "scan"]
    /\ UNCHANGED <<graphVars, clientVars>>

\* The scan of the smaller map, then the deferred RUnlocks.
TIsConnectedScan(t) ==
    /\ th[t].op = "IsConnected" /\ th[t].pc = "scan"
    /\ locks' = [locks EXCEPT
                    !.r = @ \ {<<th[t].fromV, t>>, <<th[t].toV, t>>}]
    /\ th' = Return(t, ScanEdges(th[t].fromV, th[t].toV)[1],
                    ScanEdges(th[t].fromV, th[t].toV)[2])
    /\ UNCHANGED <<graphVars, clientVars>>

\* ---- Get(key), lines 248-258, and GetAll(), lines 237-245: the registry is
\* read between g.RLock() and g.RUnlock().
TGet(t) ==
    /\ th[t].op = "Get" /\ th[t].pc = "rlock"
    /\ CanRLock(GraphLock)
    /\ th' = Return(t, get(th[t].a) # Nil, 0)
    /\ UNCHANGED <<graphVars, locks, clientVars>>

TGetAll(t) ==
    /\ th[t].op = "GetAll" /\ th[t].pc = "rlock"
    /\ CanRLock(GraphLock)
    /\ th' = Return(t, TRUE, Cardinality(DOMAIN vertices))
    /\ UNCHANGED <<graphVars, locks, clientVars>>

\* One step of the concurrent caller t.
ThreadStep(t) ==
    \/ TSetLock(t)
    \/ TSetInsert(t)
    \/ TSetVLock(t)
    \/ TSetWrite(t)
    \/ TDeleteLock(t)
    \/ TDeleteFail(t)
    \/ \E neighbor \in DOMAIN mem : TDeleteInLock(t, neighbor)
    \/ TDeleteInStrip(t)
    \/ \E neighbor \in DOMAIN mem : TDeleteOutLock(t, neighbor)
    \/ TDeleteOutStrip(t)
    \/ TDeleteUnregister(t)
    \/ TConnectRLock(t)
    \/ TConnectFail(t)
    \/ TConnectLockFrom(t)
    \/ TConnectLockTo(t)
    \/ TConnectWrite(t)
    \/ TDisconnectRLock(t)
    \/ TDisconnectFail(t)
    \/ TDisconnectLockFrom(t)
    \/ TDisconnectLockTo(t)
    \/ TDisconnectWrite(t)
    \/ TIsConnectedResolve(t)
    \/ TIsConnectedRLockFrom(t)
    \/ TIsConnectedRLockTo(t)
    \/ TIsConnectedScan(t)
    \/ TGet(t)
    \/ TGetAll(t)

vars == <<vertices, mem, ret, calls, pc, startKey, endKey, heuristic,
          openQueue, openList, closedList, current, pending, path, exists,
          handle, th, locks>>

Next ==
    \/ \E k \in Keys, v \in Values : Set(k, v)
    \/ \E k \in Keys : Delete(k)
    \/ \E a \in Keys, b \in Keys, w \in Weights : Connect(a, b, w)
    \/ \E a \in Keys, b \in Keys : Disconnect(a, b)
    \/ \E a \in Keys, b \in Keys : IsConnectedCall(a, b)

Spec == Init /\ [][Next]_vars


\* ------------------------------------------- ShortestPathWithHeuristic (A*)
\* &Item{v, prev, distanceFromStart, priority, index}: the index field is the
\* queue's own bookkeeping and is not kept here.
Item(v, prev, distanceFromStart, priority) ==
    [v |-> v, prev |-> prev,
     distanceFromStart |-> distanceFromStart, priority |-> priority]

\* The priority queue, a min-heap by priority whose ties are broken
\* arbitrarily: the queue is the set of its items and a pop may return any
\* item of least priority.
\* heap.Push(openQueue, item)
PQPush(q, item) == q \cup {item}

\* heap.Remove(openQueue, item.index)
PQRemove(q, item) == q \ {item}

\* The items heap.Pop(openQueue) may return.
PQMinima(q) == {i \in q : \A j \in q : i.priority <= j.priority}

\* v.GetOutgoing(), nil-safe
GetOutgoing(v) == IF v = Nil THEN EmptyMap ELSE mem[v].outgoingEdges

\* The path loop: the keys from current back along the prev links.
RECURSIVE BuildPath(_, _)
BuildPath(v, closed) ==
    IF v = Nil THEN <<>>
    ELSE <<mem[v].key>> \o BuildPath(closed[v].prev, closed)

\* A sum that forgets the distance of the vertex being expanded.
DistanceToNeighbor_WeightOnly(distance, weight) == weight

\* distanceToNeighbor := distance + weight
DistanceToNeighbor(distance, weight) == distance + weight

\* A test that keeps whatever entry an open neighbour already has.
KeepsOpenEntry_Always(md, distanceToNeighbor) == TRUE

\* A test that also keeps the entry of an open neighbour on a tie.
KeepsOpenEntry_OnTies(md, distanceToNeighbor) ==
    md.distanceFromStart <= distanceToNeighbor

\* md.distanceFromStart < distanceToNeighbor: the open neighbour already has
\* a better path, it is skipped.
KeepsOpenEntry(md, distanceToNeighbor) ==
    md.distanceFromStart < distanceToNeighbor

IsClosed_Never(neighbor) == FALSE

\* Lines 56-58: a neighbour that is already closed is skipped.
IsClosed(neighbor) == neighbor \in DOMAIN closedList

\* Lines 9-29: resolve the endpoints, open the start vertex.
SearchBegin ==
    /\ pc = "call"
    /\ LET start == get(startKey)
           item == Item(start, Nil, 0, 0)
       IN /\ openList' = MapSet(EmptyMap, start, item)
          /\ openQueue' = PQPush({}, item)
    /\ closedList' = EmptyMap
    /\ pc' = "loop"
    /\ UNCHANGED <<graphVars, ret, calls, handle, threadVars,
                   startKey, endKey, heuristic,
                   current, pending, path, exists>>

\* Lines 31-53: pop an item of least priority, close its vertex; at the end
\* vertex build the path and return, otherwise start the range loop over
\* the vertex's outgoing edges.  closedList[current] is a nil *Item when the
\* vertex is not in openList, and the next read through it panics.
SearchPop(item) ==
    /\ pc = "loop"
    /\ item \in PQMinima(openQueue)
    /\ \/ item.v \notin DOMAIN openList
       \/ item.v = get(endKey)
       \/ CanRLock(item.v)
    /\ openQueue' = PQRemove(openQueue, item)
    /\ current' = item.v
    /\ UNCHANGED <<graphVars, ret, calls, handle, threadVars,
                   startKey, endKey, heuristic>>
    /\ IF item.v \notin DOMAIN openList
       THEN /\ pc' = "panic"
            /\ UNCHANGED <<openList, closedList, pending, path, exists>>
       ELSE /\ closedList' = MapSet(closedList, item.v, openList[item.v])
            /\ openList' = MapDelete(openList, item.v)
            /\ IF item.v = get(endKey)
               THEN /\ exists' = TRUE
                    /\ path' = BuildPath(item.v, closedList')
                    /\ pending' = {}
                    /\ pc' = "done"
               ELSE /\ pending' = DOMAIN GetOutgoing(item.v)
                    /\ pc' = IF pending' = {} THEN "loop" ELSE "range"
                    /\ UNCHANGED <<path, exists>>

\* Lines 55-84, one iteration of the range loop, for the neighbour the map
\* iteration yields next (a Go map is ranged over in no fixed order).  The
\* loop ranges over the vertex's own map: an entry removed since the loop
\* began is not produced, a weight is read when its entry is produced, and
\* an entry a concurrent Connect creates joins pending or not (TConnectWrite).
SearchRelax(neighbor) ==
    /\ pc = "range"
    /\ neighbor \in pending
    /\ pending' = pending \ {neighbor}
    /\ pc' = IF pending' = {} THEN "loop" ELSE "range"
    /\ UNCHANGED <<graphVars, ret, calls, handle, threadVars,
                   startKey, endKey, heuristic,
                   closedList, current, path, exists>>
    /\ LET distance == closedList[current].distanceFromStart
           weight == GetOutgoing(current)[neighbor]
           distanceToNeighbor == DistanceToNeighbor(distance, weight)
           item == Item(neighbor, current, distanceToNeighbor,
                        distanceToNeighbor + heuristic[mem[neighbor].key])
       IN IF neighbor \notin DOMAIN GetOutgoing(current)
          THEN UNCHANGED <<openList, openQueue>>
          ELSE IF IsClosed(neighbor)
          THEN UNCHANGED <<openList, openQueue>>
          ELSE IF neighbor \in DOMAIN openList
                  /\ KeepsOpenEntry(openList[neighbor], distanceToNeighbor)
          THEN UNCHANGED <<openList, openQueue>>
          ELSE /\ openList' = MapSet(openList, neighbor, item)
               /\ openQueue' =
                    PQPush(IF neighbor \in DOMAIN openList
                           THEN PQRemove(openQueue, openList[neighbor])
                           ELSE openQueue,
                           item)

\* Lines 31, 87: the queue is empty, return the zero results.
SearchFail ==
    /\ pc = "loop"
    /\ openQueue = {}
    /\ pc' = "done"
    /\ UNCHANGED <<graphVars, ret, calls, handle, threadVars,
                   startKey, endKey, heuristic,
                   openQueue, openList, closedList, current, pending,
                   path, exists>>

\* Line 55 while a Connect or Disconnect is at its write of the same map
\* (lines 289, 322): the loop reads the map without the vertex's lock, and a
\* step of the iteration that finds the map being written ends the program
\* with the runtime's "concurrent map iteration and map write".  No caller
\* takes a step after that.
SearchFatal ==
    /\ pc = "range"
    /\ \E t \in Threads :
            /\ th[t].op \in {"Connect", "Disconnect"}
            /\ th[t].pc = "write"
            /\ th[t].fromV = current
    /\ pc' = "fatal"
    /\ UNCHANGED <<graphVars, ret, calls, handle, threadVars,
                   startKey, endKey, heuristic,
                   openQueue, openList, closedList, current, pending,
                   path, exists>>

\* The program has not been stopped by the runtime.
Running == pc # "fatal"

\* ---- the graphs and queries a search is run on
\* The keys of the vertices of a searched graph; vertex r has key
\* SearchKeys[r].
SearchKeys == <<"1", "2", "3", "4">>

SearchRefs == DOMAIN SearchKeys

\* The candidate edges of the drawn graphs.  Edges into vertex "1" and out
\* of vertex "4" are left out: the drawn queries start at "1", which is
\* closed at the first pop, so an edge into it is only ever skipped; and the
\* end vertex "4" is never expanded.  The example graph has both kinds.
SearchPairs ==
    {e \in SearchRefs \X SearchRefs : e[1] # e[2] /\ e[2] # 1 /\ e[1] # 4}

\* The graph Set and Connect build from the edges E (a map from pairs of
\* vertices to weights).
GraphOf(E) ==
    [r \in SearchRefs |->
        [key |-> SearchKeys[r], value |-> 123,
         incomingEdges |->
            [f \in {f \in SearchRefs : <<f, r>> \in DOMAIN E} |-> E[<<f, r>>]],
         outgoingEdges |->
            [t \in {t \in SearchRefs : <<r, t>> \in DOMAIN E} |-> E[<<r, t>>]]]]

\* The graph of the tests: 1->2 (5), 2->3 (1), 3->1 (9), 4->2 (3).
ExampleEdges ==
    [e \in {<<1, 2>>, <<2, 3>>, <<3, 1>>, <<4, 2>>} |->
        IF e = <<1, 2>> THEN 5
        ELSE IF e = <<2, 3>> THEN 1
        ELSE IF e = <<3, 1>> THEN 9
        ELSE 3]

\* The estimates a drawn heuristic returns.
HValues == {0, MaxH}

ZeroHeuristic == [k \in {SearchKeys[r] : r \in SearchRefs} |-> 0]

\* A query is about to run on a graph of four vertices: either a graph of at
\* most MaxEdges edges with weights in Weights, queried from "1" or from the
\* unregistered key "5" to "1", "4" or the unregistered keys "5", "6" with
\* any heuristic of values in HValues (the estimate for the start vertex is
\* never asked for and fixed to 0), or the example graph queried from "1" to
\* "3" or "4" with the zero heuristic.
InitAStar ==
    /\ vertices = [k \in {SearchKeys[r] : r \in SearchRefs} |->
                      CHOOSE r \in SearchRefs : SearchKeys[r] = k]
    /\ ret = Ret("Connect", TRUE, 0)
    /\ calls = 0
    /\ handle = Nil
    /\ NoThreads
    /\ pc = "call"
    /\ openQueue = {}
    /\ openList = EmptyMap
    /\ closedList = EmptyMap
    /\ current = Nil
    /\ pending = {}
    /\ path = <<>>
    /\ exists = FALSE
    /\ \/ /\ \E S \in SUBSET SearchPairs :
                /\ Cardinality(S) <= MaxEdges
                /\ \E E \in [S -> Weights] : mem = GraphOf(E)
          /\ startKey \in {"1", "5"}
          /\ endKey \in {"1", "4", "5", "6"}
          /\ heuristic \in {h \in [DOMAIN ZeroHeuristic -> HValues] : h["1"] = 0}
       \/ /\ mem = GraphOf(ExampleEdges)
          /\ startKey = "1"
          /\ endKey \in {"3", "4"}
          /\ heuristic = ZeroHeuristic

NextAStar ==
    \/ SearchBegin
    \/ \E item \in openQueue : SearchPop(item)
    \/ \E neighbor \in pending : SearchRelax(neighbor)
    \/ SearchFail

SpecAStar == InitAStar /\ [][NextAStar]_vars

\* ---- gob serialization
\* What graphGob.add(v) puts into Edges[v.key]: the weight of every outgoing
\* edge under the key of its neighbour, read from the edge map edges.
GobEdges(edges) ==
    [k \in {mem[n].key : n \in DOMAIN edges} |->
        edges[CHOOSE n \in DOMAIN edges : mem[n].key = k]]

\* The edges add(v) saves, taken from the incoming side.
GobAdd_IncomingEdges(v) ==
    [value |-> mem[v].value, edges |-> GobEdges(mem[v].incomingEdges)]

\* graphGob.add(v): the entries Vertices[v.key] and Edges[v.key].
GobAdd(v) ==
    [value |-> mem[v].value, edges |-> GobEdges(mem[v].outgoingEdges)]

\* GobEncode(): the graphGob the encoder is given, built by add from every
\* registered vertex.  Its unexported field inv is not transmitted, and the
\* byte stream carries the two exported maps as they are (keys, values of
\* basic types and weights).
GobEncode ==
    LET ks == {mem[v].key : v \in {vertices[k] : k \in DOMAIN vertices}}
        vOf(k) == CHOOSE v \in {vertices[x] : x \in DOMAIN vertices} :
                      mem[v].key = k
    IN [Vertices |-> [k \in ks |-> GobAdd(vOf(k)).value],
        Edges |-> [k \in ks |-> GobAdd(vOf(k)).edges]]

\* The first loop of GobDecode on a new graph: Set(key, value) for the keys
\* S of Vertices, each one allocating a vertex.
RECURSIVE GobDecodeVertices(_, _)
GobDecodeVertices(Vertices, S) ==
    IF S = {} THEN [vertices |-> EmptyMap, mem |-> <<>>]
    ELSE LET key == CHOOSE k \in S : TRUE
             g == GobDecodeVertices(Vertices, S \ {key})
         IN [vertices |-> MapSet(g.vertices, key, Len(g.mem) + 1),
             mem |-> Append(g.mem, NewVertex(key, Vertices[key]))]

\* GobDecode(b) into a new graph: Set for every entry of Vertices, then
\* Connect(key, otherKey, weight) for every entry of Edges; a Connect that
\* returns false (equal keys, or a key that is not registered) makes the
\* decoding fail with "invalid edge endpoints".
GobDecode(gGob) ==
    LET g == GobDecodeVertices(gGob.Vertices, DOMAIN gGob.Vertices)
        known(k) == k \in DOMAIN g.vertices
        connects(key, otherKey) ==
            /\ key \in DOMAIN gGob.Edges
            /\ otherKey \in DOMAIN gGob.Edges[key]
        ok(key, otherKey) == key # otherKey /\ known(key) /\ known(otherKey)
        keyOf(r) == g.mem[r].key
        Refs == DOMAIN g.mem
    IN [vertices |-> g.vertices,
        mem |->
            [r \in Refs |->
                [g.mem[r] EXCEPT
                    !.outgoingEdges =
                        [n \in {n \in Refs : /\ connects(keyOf(r), keyOf(n))
                                              /\ ok(keyOf(r), keyOf(n))} |->
                            gGob.Edges[keyOf(r)][keyOf(n)]],
                    !.incomingEdges =
                        [n \in {n \in Refs : /\ connects(keyOf(n), keyOf(r))
                                              /\ ok(keyOf(n), keyOf(r))} |->
                            gGob.Edges[keyOf(n)][keyOf(r)]]]],
        err |-> \E key \in DOMAIN gGob.Edges :
                    \E otherKey \in DOMAIN gGob.Edges[key] :
                        ~ok(key, otherKey)]

\* ---- concurrent callers and a query
\* Lines 9-10: g.RLock(), held until the query returns.
QueryRLock ==
    /\ pc = "start"
    /\ CanRLock(GraphLock)
    /\ locks' = RLock(GraphLock, QueryThread)
    /\ pc' = "call"
    /\ UNCHANGED <<graphVars, ret, calls, handle, th, startKey, endKey,
                   heuristic, openQueue, openList, closedList, current,
                   pending, path, exists>>

\* The deferred g.RUnlock() when the query returns.
QueryRUnlock ==
    /\ pc = "done"
    /\ <<GraphLock, QueryThread>> \in locks.r
    /\ locks' = RUnlock(GraphLock, QueryThread)
    /\ pc' = "returned"
    /\ UNCHANGED <<graphVars, ret, calls, handle, th, startKey, endKey,
                   heuristic, openQueue, openList, closedList, current,
                   pending, path, exists>>

\* The keys the concurrent callers use: the four registered keys, and for
\* Set the new key "5".
ConcKeys == {SearchKeys[r] : r \in SearchRefs}

\* A call that is about to start.
Call(op, a, b, w) ==
    [IdleThread EXCEPT !.op = op, !.a = a, !.b = b, !.w = w,
                       !.pc = IF op \in {"Set", "Delete"}
                              THEN "lock" ELSE "rlock"]

\* The calls a concurrent caller makes: one call each, or none.
Calls ==
    {IdleThread}
    \cup {Call("Set", k, "", 678) : k \in ConcKeys \cup {"5"}}
    \cup {Call("Delete", k, "", 0) : k \in ConcKeys}
    \cup {Call("Connect", e[1], e[2], MaxWeight) :
            e \in {e \in ConcKeys \X ConcKeys : e[1] # e[2]}}
    \cup {Call("Disconnect", e[1], e[2], 0) :
            e \in {e \in ConcKeys \X ConcKeys : e[1] # e[2]}}
    \cup {Call("IsConnected", e[1], e[2], 0) :
            e \in {e \in ConcKeys \X ConcKeys : e[1] # e[2]}}
    \cup {Call("Get", "1", "", 0), Call("GetAll", "", "", 0)}

\* The example graph has been built; each concurrent caller is about to
\* make a call, and a query from "1" to "3" (reachable) or to "4" (not
\* reachable) with the zero heuristic is about to start, or none is.
InitConc ==
    /\ vertices = [k \in ConcKeys |->
                      CHOOSE r \in SearchRefs : SearchKeys[r] = k]
    /\ mem = GraphOf(ExampleEdges)
    /\ ret = Ret("Connect", TRUE, 0)
    /\ calls = 0
    /\ handle = Nil
    /\ th \in [Threads -> Calls]
    /\ locks = NoLocks
    /\ \/ NoQuery
       \/ /\ pc = "start"
          /\ startKey = "1"
          /\ endKey \in {"3", "4"}
          /\ heuristic = ZeroHeuristic
          /\ openQueue = {}
          /\ openList = EmptyMap
          /\ closedList = EmptyMap
          /\ current = Nil
          /\ pending = {}
          /\ path = <<>>
          /\ exists = FALSE

NextConc ==
    \/ \E t \in Threads : Running /\ ThreadStep(t)
    \/ QueryRLock
    \/ SearchBegin
    \/ \E item \in openQueue : SearchPop(item)
    \/ \E neighbor \in pending : SearchRelax(neighbor)
    \/ SearchFail
    \/ SearchFatal
    \/ QueryRUnlock

SpecConc == InitConc /\ [][NextConc]_vars

\* ---- the sequential client, keeping a vertex it got from Get
NextAccessors ==
    \/ Next
    \/ \E k \in Keys : Get(k)

SpecAccessors == Init /\ [][NextAccessors]_vars

\* ---- queries on graphs with any weights
\* Weights of either sign, and estimates of either sign.
AnyWeights == {0 - MaxWeight, 1}

AnyHValues == {0 - MaxH, 0, MaxH}

\* A query from "1" to "4" or to the unregistered key "5" (which makes the
\* search exhaust the open set) on a graph of at most MaxEdges edges with
\* weights in AnyWeights, cycles of negative weight among them, with any
\* heuristic of values in AnyHValues on the inner vertices.
InitAnyWeights ==
    /\ vertices = [k \in {SearchKeys[r] : r \in SearchRefs} |->
                      CHOOSE r \in SearchRefs : SearchKeys[r] = k]
    /\ ret = Ret("Connect", TRUE, 0)
    /\ calls = 0
    /\ handle = Nil
    /\ NoThreads
    /\ pc = "call"
    /\ openQueue = {}
    /\ openList = EmptyMap
    /\ closedList = EmptyMap
    /\ current = Nil
    /\ pending = {}
    /\ path = <<>>
    /\ exists = FALSE
    /\ \E S \in SUBSET SearchPairs :
            /\ Cardinality(S) <= MaxEdges
            /\ \E E \in [S -> AnyWeights] : mem = GraphOf(E)
    /\ startKey = "1"
    /\ endKey \in {"4", "5"}
    /\ heuristic \in {h \in [DOMAIN ZeroHeuristic -> AnyHValues] :
                          h["1"] = 0 /\ h["4"] = 0}

\* The query runs in the calling thread and waits for nothing once it holds
\* the registry lock: a step that can be taken is taken.
SpecAnyWeights ==
    InitAnyWeights /\ [][NextAStar]_vars /\ WF_vars(NextAStar)

\* ------------------------------------------------ claims on the graph store
\* The vertices the registry holds.
Registered == {vertices[k] : k \in DOMAIN vertices}

\* The vertices a vertex names in its edge maps.
Neighbours(v) ==
    (DOMAIN mem[v].outgoingEdges) \cup (DOMAIN mem[v].incomingEdges)

HasEdge(a, b) == b \in DOMAIN mem[a].outgoingEdges

\* C1: edge symmetry at rest.  After any sequence of completed calls, for all
\* registered vertices A, B and every weight w, A.outgoingEdges[B] = w if and
\* only if B.incomingEdges[A] = w.
C1_EdgeSymmetry ==
    \A a \in Registered, b \in Registered, w \in Weights :
        (b \in DOMAIN mem[a].outgoingEdges /\ mem[a].outgoingEdges[b] = w)
        <=> (a \in DOMAIN mem[b].incomingEdges /\ mem[b].incomingEdges[a] = w)

\* An edge of weight MaxWeight survives between two registered vertices after
\* a successful Delete of a third vertex.
C1_Witness ==
    /\ ret.op = "Delete" /\ ret.ok
    /\ \E a \in Registered, b \in Registered :
        /\ HasEdge(a, b)
        /\ mem[a].outgoingEdges[b] = MaxWeight

\* No registered vertex names an unregistered vertex in an edge map.
NoOrphans == \A a \in Registered : Neighbours(a) \subseteq Registered

\* C2: no orphaned references.  Whenever Delete(a) returns true, a is absent
\* from the registry and the deleted vertex is in no edge map of a vertex
\* still registered; and in every state every vertex named in an edge map of
\* a registered vertex is registered.
C2_NoOrphans ==
    /\ []NoOrphans
    /\ [][\A k \in Keys :
            (ret'.op = "Delete" /\ ret'.ok /\ Delete(k)) =>
                /\ k \notin DOMAIN vertices'
                /\ \A a \in Registered' : get(k) \notin Neighbours(a)']_vars

\* A vertex with an incoming and an outgoing neighbour, both still
\* registered, has just been deleted.
C2_Witness ==
    /\ ret.op = "Delete" /\ ret.ok
    /\ \E d \in (DOMAIN mem) \ Registered :
        /\ (DOMAIN mem[d].incomingEdges) \cap Registered # {}
        /\ (DOMAIN mem[d].outgoingEdges) \cap Registered # {}

\* C3: directed connect/query agreement.  For distinct registered keys a, b
\* and any weight w, Connect(a,b,w) returns true and right afterwards
\* IsConnected(a,b) is (true, w), also when it overwrites an older weight;
\* that Connect leaves IsConnected(b,a) as it was, IsConnected(b,a) becomes
\* true only by a Connect(b,a,_) and is false after a Disconnect(b,a) or a
\* Delete of a or b.
C3_ConnectQuery ==
    [][\A a \in Keys, b \in Keys :
        /\ \A w \in Weights :
            (ret'.op = "Connect" /\ a # b /\ get(a) # Nil /\ get(b) # Nil
                /\ Connect(a, b, w)) =>
                /\ ret'.ok
                /\ IsConnected(a, b)' = <<TRUE, w>>
                /\ IsConnected(b, a)' = IsConnected(b, a)
        /\ (~IsConnected(b, a)[1] /\ IsConnected(b, a)[1]') =>
                (ret'.op = "Connect" /\ \E w \in Weights : Connect(b, a, w))
        /\ (ret'.ok /\ \/ ret'.op = "Disconnect" /\ Disconnect(b, a)
                       \/ ret'.op = "Delete" /\ (Delete(a) \/ Delete(b))) =>
                ~IsConnected(b, a)[1]']_vars

\* A Connect has succeeded and left an edge with no edge in the reverse
\* direction, of a weight other than 0 (the weight of a failed query).
C3_Witness ==
    /\ ret.op = "Connect" /\ ret.ok
    /\ \E a \in Keys, b \in Keys :
        /\ IsConnected(a, b) = <<TRUE, MaxWeight>>
        /\ ~IsConnected(b, a)[1]

\* No vertex is a key of its own outgoingEdges or incomingEdges.
NoSelfLoops == \A v \in DOMAIN mem : v \notin Neighbours(v)

\* C4: no self-loops.  Connect(a,a,w) returns false for every key a and
\* weight w, no vertex is ever a key of one of its own edge maps, and
\* IsConnected(a,a) is always false.
C4_NoSelfLoops ==
    /\ [](NoSelfLoops /\ \A a \in Keys : ~IsConnected(a, a)[1])
    /\ [][\A a \in Keys, w \in Weights :
            (ret'.op = "Connect" /\ Connect(a, a, w)) => ~ret'.ok]_vars

\* A Connect has failed although every key is registered: its endpoints were
\* identical.
C4_Witness ==
    /\ ret.op = "Connect" /\ ~ret.ok
    /\ DOMAIN vertices = Keys

\* Identical endpoints, or a key that is not registered.
InvalidEndpoints(a, b) == a = b \/ get(a) = Nil \/ get(b) = Nil

\* C5: invalid operations return false and change nothing.  Connect,
\* Disconnect and IsConnected with identical endpoints or an unknown key
\* return false, Delete of an unknown key returns false, and the registry,
\* the values and the edge maps stay as they were.
C5_InvalidOperation ==
    [][/\ \A a \in Keys, b \in Keys :
            InvalidEndpoints(a, b) =>
                /\ \A w \in Weights :
                    (ret'.op = "Connect" /\ Connect(a, b, w))
                        => (~ret'.ok /\ UNCHANGED graphVars)
                /\ (ret'.op = "Disconnect" /\ Disconnect(a, b))
                        => (~ret'.ok /\ UNCHANGED graphVars)
                /\ (ret'.op = "IsConnected" /\ IsConnectedCall(a, b))
                        => (~ret'.ok /\ UNCHANGED graphVars)
       /\ \A k \in Keys :
            (ret'.op = "Delete" /\ get(k) = Nil /\ Delete(k))
                => (~ret'.ok /\ UNCHANGED graphVars)]_vars

\* A Disconnect has failed in a graph that holds an edge.
C5_Witness ==
    /\ ret.op = "Disconnect" /\ ~ret.ok
    /\ \E a \in Registered : DOMAIN mem[a].outgoingEdges # {}

\* C6: Set frame.  Set on an absent key adds one vertex with that key, that
\* value and empty edge maps, which no vertex names; Set on a present key
\* changes that vertex's value only; every other vertex, every edge and the
\* rest of the registry stay as they were.
C6_SetFrame ==
    [][\A k \in Keys, x \in Values :
        (ret'.op = "Set" /\ Set(k, x)) =>
            IF get(k) = Nil
            THEN /\ DOMAIN vertices' = (DOMAIN vertices) \cup {k}
                 /\ \A j \in DOMAIN vertices : vertices'[j] = vertices[j]
                 /\ vertices'[k] \notin DOMAIN mem
                 /\ DOMAIN mem' = (DOMAIN mem) \cup {vertices'[k]}
                 /\ mem'[vertices'[k]] =
                        [key |-> k, value |-> x,
                         incomingEdges |-> EmptyMap, outgoingEdges |-> EmptyMap]
                 /\ \A v \in DOMAIN mem :
                        mem'[v] = mem[v] /\ vertices'[k] \notin Neighbours(v)
            ELSE /\ vertices' = vertices
                 /\ DOMAIN mem' = DOMAIN mem
                 /\ \A v \in DOMAIN mem :
                        mem'[v] = IF v = get(k)
                                  THEN [mem[v] EXCEPT !.value = x]
                                  ELSE mem[v]]_vars

\* A key has been deleted while its vertex had edges and has been set again:
\* the new vertex has none.
C6_Witness ==
    /\ ret.op = "Set"
    /\ \E d \in (DOMAIN mem) \ Registered :
        /\ Neighbours(d) # {}
        /\ get(mem[d].key) # Nil
        /\ Neighbours(get(mem[d].key)) = {}

\* C7: Disconnect.  For distinct registered keys a, b, Disconnect(a,b)
\* returns true whether or not the edge exists; afterwards IsConnected(a,b)
\* is false and the entry is in neither a.outgoingEdges nor b.incomingEdges;
\* every other edge, every value and the registry are unchanged, and if
\* there was no edge a->b the whole state is unchanged.
C7_Disconnect ==
    [][\A a \in Keys, b \in Keys :
        (ret'.op = "Disconnect" /\ a # b /\ get(a) # Nil /\ get(b) # Nil
            /\ Disconnect(a, b)) =>
            /\ ret'.ok
            /\ ~IsConnected(a, b)[1]'
            /\ get(b) \notin DOMAIN mem'[get(a)].outgoingEdges
            /\ get(a) \notin DOMAIN mem'[get(b)].incomingEdges
            /\ vertices' = vertices
            /\ DOMAIN mem' = DOMAIN mem
            /\ \A v \in DOMAIN mem :
                /\ mem'[v].key = mem[v].key
                /\ mem'[v].value = mem[v].value
                /\ mem'[v].outgoingEdges =
                      IF v = get(a) THEN MapDelete(mem[v].outgoingEdges, get(b))
                      ELSE mem[v].outgoingEdges
                /\ mem'[v].incomingEdges =
                      IF v = get(b) THEN MapDelete(mem[v].incomingEdges, get(a))
                      ELSE mem[v].incomingEdges
            /\ ~IsConnected(a, b)[1] => UNCHANGED graphVars]_vars

\* A Disconnect has succeeded between two vertices that are still joined by
\* the edge of the reverse direction.
C7_Witness ==
    /\ ret.op = "Disconnect" /\ ret.ok
    /\ \E a \in Keys, b \in Keys :
        /\ ~IsConnected(a, b)[1]
        /\ IsConnected(b, a)[1]


\* ------------------------------------------------------ claims on the search
Min(S) == CHOOSE x \in S : \A y \in S : x <= y

EdgeWeight(u, v) == mem[u].outgoingEdges[v]

\* One round of relaxing every edge: d maps the vertices reached so far to
\* the least weight of a walk to them found so far.
RelaxAll(d) ==
    LET cand(v) ==
            (IF v \in DOMAIN d THEN {d[v]} ELSE {})
            \cup {d[u] + EdgeWeight(u, v) :
                    u \in {u \in DOMAIN d : HasEdge(u, v)}}
    IN [v \in {v \in DOMAIN mem : cand(v) # {}} |-> Min(cand(v))]

RECURSIVE RelaxRounds(_, _)
RelaxRounds(d, k) == IF k = 0 THEN d ELSE RelaxRounds(RelaxAll(d), k - 1)

\* The vertices reachable from s along outgoing edges, each with the least
\* total weight of a path from s (weights non-negative).
MinDist(s) == RelaxRounds([v \in {s} |-> 0], Cardinality(DOMAIN mem))

NonNegativeWeights ==
    \A u \in DOMAIN mem : \A v \in DOMAIN mem[u].outgoingEdges :
        EdgeWeight(u, v) >= 0

\* The returned keys, read from the last to the first, are a walk of the
\* graph from startKey to endKey.
PathIsWalk ==
    /\ path # <<>>
    /\ path[1] = endKey
    /\ path[Len(path)] = startKey
    /\ \A i \in 1..(Len(path) - 1) : HasEdge(get(path[i + 1]), get(path[i]))

RECURSIVE WalkWeight(_, _)
WalkWeight(p, i) ==
    IF i >= Len(p) THEN 0
    ELSE EdgeWeight(get(p[i + 1]), get(p[i])) + WalkWeight(p, i + 1)

\* Total weight of the returned path.
PathWeight == WalkWeight(path, 1)

\* The returned path is a start-to-end path of least total weight.
PathIsShortest ==
    /\ PathIsWalk
    /\ get(endKey) \in DOMAIN MinDist(get(startKey))
    /\ PathWeight = MinDist(get(startKey))[get(endKey)]

\* C8: Dijkstra-equivalent correctness.  With non-negative weights,
\* registered start and end keys and the zero heuristic, the search reports
\* found exactly when end is reachable from start, and the path found has
\* the least total weight; on the example graph the search from 1 to 3
\* returns 3, 2, 1 of weight 6 and the search from 1 to 4 returns not found
\* and no path.
C8_Dijkstra ==
    (pc = "done" /\ heuristic = ZeroHeuristic /\ NonNegativeWeights
        /\ get(startKey) # Nil /\ get(endKey) # Nil) =>
        /\ exists <=> get(endKey) \in DOMAIN MinDist(get(startKey))
        /\ exists => PathIsShortest
        /\ (mem = GraphOf(ExampleEdges) /\ startKey = "1" /\ endKey = "3") =>
                (exists /\ path = <<"3", "2", "1">> /\ PathWeight = 6)
        /\ (mem = GraphOf(ExampleEdges) /\ startKey = "1" /\ endKey = "4") =>
                (~exists /\ path = <<>>)

\* A search with the zero heuristic has returned a path of three or more
\* vertices although a direct edge of greater weight joins start and end.
C8_Witness ==
    /\ pc = "done" /\ heuristic = ZeroHeuristic /\ exists
    /\ get(startKey) # Nil /\ get(endKey) # Nil
    /\ Len(path) >= 3
    /\ HasEdge(get(startKey), get(endKey))
    /\ EdgeWeight(get(startKey), get(endKey)) > PathWeight

\* The heuristic never overestimates the least weight of a path to the end
\* vertex (no bound where there is no path).
Admissible ==
    \A v \in Registered :
        get(endKey) \in DOMAIN MinDist(v) =>
            heuristic[mem[v].key] <= MinDist(v)[get(endKey)]

\* The heuristic is 0 at the end vertex and along every edge u -> v drops by
\* no more than the edge's weight.
Consistent ==
    /\ heuristic[endKey] = 0
    /\ \A u \in Registered : \A v \in DOMAIN mem[u].outgoingEdges :
            heuristic[mem[u].key] <= EdgeWeight(u, v) + heuristic[mem[v].key]

C10_UnknownEndpoints ==
    (pc = "done" /\ (get(startKey) = Nil \/ get(endKey) = Nil)) =>
        (~exists /\ path = <<>>)


\* C11: path shape.  Whenever the search reports found, the returned keys
\* run from endKey (first) to startKey (last), no key occurs twice, every
\* key is followed by the key of a vertex with an edge to it, and for a
\* registered startKey = endKey the path is that single key.
C11_PathShape ==
    (pc = "done" /\ exists) =>
        /\ PathIsWalk
        /\ \A i \in DOMAIN path, j \in DOMAIN path :
                path[i] = path[j] => i = j
        /\ (startKey = endKey /\ get(startKey) # Nil) => path = <<startKey>>


\* C12: search termination.  On every finite graph, with weights and
\* estimates of either sign, the query returns (it pops the end vertex or
\* finds the open set empty), and no vertex is popped twice: a popped vertex
\* was never closed before, so there are at most as many pops as vertices.
C12_Termination ==
    /\ <>(pc = "done")
    /\ [][\A item \in openQueue :
            SearchPop(item) =>
                /\ item.v \notin DOMAIN closedList
                /\ Cardinality(DOMAIN closedList') <= Cardinality(SearchRefs)]_vars

\* The search has ended with every vertex popped, on a graph with a cycle
\* of negative weight and an estimate that is not 0.
C12_Witness ==
    /\ pc = "done"
    /\ DOMAIN closedList = SearchRefs
    /\ \E a, b \in SearchRefs :
        /\ HasEdge(a, b) /\ HasEdge(b, a)
        /\ mem[a].outgoingEdges[b] + mem[b].outgoingEdges[a] < 0
    /\ \E k \in DOMAIN heuristic : heuristic[k] # 0


\* C16 (as stated): the accessors on a nil vertex, or on a vertex that has
\* been deleted since the client got it from Get, return the zero result:
\* empty key, nil value, empty edge maps.
C16_StaleAccessors ==
    (handle = Nil \/ handle \notin Registered) =>
        /\ Key(handle) = ""
        /\ Value(handle) = Nil
        /\ GetOutgoing(handle) = EmptyMap
        /\ GetIncoming(handle) = EmptyMap

\* C16 (amended): the accessors on a nil vertex return the zero result; on
\* a vertex deleted since the client got it they return the key, the value
\* and the edge maps the vertex had when it was deleted, and no later call
\* changes them.
C16_NilAndStale ==
    /\ [](handle = Nil =>
            /\ Key(handle) = ""
            /\ Value(handle) = Nil
            /\ GetOutgoing(handle) = EmptyMap
            /\ GetIncoming(handle) = EmptyMap)
    /\ [][(handle' # Nil /\ handle' = handle /\ handle' \notin Registered') =>
            /\ Key(handle)' = Key(handle)
            /\ Key(handle)' # ""
            /\ Value(handle)' = Value(handle)
            /\ GetOutgoing(handle)' = GetOutgoing(handle)
            /\ GetIncoming(handle)' = GetIncoming(handle)]_vars

\* The client holds a vertex that was just deleted, and the vertex still
\* names a neighbour in its outgoing edges.
C16_Witness ==
    /\ ret.op = "Delete" /\ ret.ok
    /\ handle # Nil /\ handle \notin Registered
    /\ GetOutgoing(handle) # EmptyMap


\* What a graph holds, by key: the value of every registered key and the
\* weights of its outgoing and of its incoming edges by the neighbour's key.
KeyView(verts, m) ==
    [k \in DOMAIN verts |->
        [value |-> m[verts[k]].value,
         out |-> {<<m[n].key, m[verts[k]].outgoingEdges[n]>> :
                    n \in DOMAIN m[verts[k]].outgoingEdges},
         in |-> {<<m[n].key, m[verts[k]].incomingEdges[n]>> :
                    n \in DOMAIN m[verts[k]].incomingEdges}]]

\* C18: serialization round trip.  For every graph the calls can build,
\* decoding its encoding into a new graph succeeds and gives a graph with
\* the same keys, the same value per key and the same directed edges and
\* weights.
C18_GobRoundTrip ==
    LET newG == GobDecode(GobEncode)
    IN /\ ~newG.err
       /\ KeyView(newG.vertices, newG.mem) = KeyView(vertices, mem)

\* A graph with an edge that has no reverse edge, and a value set twice.
C18_Witness ==
    /\ \E a, b \in Registered : HasEdge(a, b) /\ ~HasEdge(b, a)
    /\ \E a, b \in Registered : mem[a].value # mem[b].value
    /\ LET newG == GobDecode(GobEncode)
       IN \E k \in DOMAIN newG.vertices :
            newG.mem[newG.vertices[k]].outgoingEdges # EmptyMap


\* ------------------------------------------- claims on concurrent callers
\* Every call that was started has returned.
AllReturned ==
    /\ \A t \in Threads : th[t].pc = "done"
    /\ pc \in {"idle", "returned"}

\* C13: deadlock freedom.  Under any interleaving of concurrent calls no
\* state is reached in which a call has not returned and no caller can take
\* a step, so with fair scheduling every call returns.
C13_DeadlockFree == AllReturned \/ ENABLED NextConc


\* The two concurrent callers make Connect calls on disjoint pairs of keys,
\* and no query runs beside them.
DisjointConnects ==
    /\ pc = "idle"
    /\ \A t \in Threads : th[t].op = "Connect"
    /\ {th["t1"].a, th["t1"].b} \cap {th["t2"].a, th["t2"].b} = {}

\* The edge a -> b is what the example graph and the Connect calls of the
\* concurrent callers make it: the weight of the call that names the pair,
\* or else the example graph's edge, on both of its sides.
EdgeAsConnected(a, b) ==
    LET named == {t \in Threads : /\ th[t].op = "Connect"
                                  /\ vertices[th[t].a] = a
                                  /\ vertices[th[t].b] = b}
        expected ==
            IF named # {} THEN {th[t].w : t \in named}
            ELSE IF <<a, b>> \in DOMAIN ExampleEdges
            THEN {ExampleEdges[<<a, b>>]}
            ELSE {}
        out == IF b \in DOMAIN mem[a].outgoingEdges
               THEN {mem[a].outgoingEdges[b]} ELSE {}
        in == IF a \in DOMAIN mem[b].incomingEdges
              THEN {mem[b].incomingEdges[a]} ELSE {}
    IN out = expected /\ in = expected

\* C14: concurrent Connect on disjoint pairs.  When the callers make Connect
\* calls on pairwise disjoint pairs of distinct registered keys, some call
\* can always go on until all have returned, every call returns true, and
\* when all have returned each named edge is there with its weight on both
\* sides, every other edge is as before, and the registry and the values
\* are unchanged.
C14_DisjointConnects ==
    DisjointConnects =>
        /\ \A t \in Threads : th[t].pc = "done" => th[t].ok
        /\ (\E t \in Threads : th[t].pc # "done")
                => ENABLED (\E t \in Threads : ThreadStep(t))
        /\ (\A t \in Threads : th[t].pc = "done") =>
                /\ DOMAIN vertices = ConcKeys
                /\ DOMAIN mem = SearchRefs
                /\ \A r \in SearchRefs :
                        /\ vertices[SearchKeys[r]] = r
                        /\ mem[r].key = SearchKeys[r]
                        /\ mem[r].value = 123
                /\ \A a, b \in SearchRefs : EdgeAsConnected(a, b)

\* Two Connect calls on disjoint pairs have returned; one has replaced the
\* weight of an edge of the example graph, the other has made a new edge.
C14_Witness ==
    /\ DisjointConnects
    /\ \A t \in Threads : th[t].pc = "done" /\ th[t].ok
    /\ \E t \in Threads :
            <<vertices[th[t].a], vertices[th[t].b]>> \in DOMAIN ExampleEdges
    /\ \E t \in Threads :
            <<vertices[th[t].a], vertices[th[t].b]>> \notin DOMAIN ExampleEdges


\* C15: atomic visibility of edge updates.  Under any interleaving of
\* concurrent calls, at every moment at which the mutex of neither of two
\* registered vertices A, B is write-held, A.outgoingEdges[B] = w if and
\* only if B.incomingEdges[A] = w.
C15_AtomicVisibility ==
    \A a \in Registered, b \in Registered :
        (~WriteHeld(a) /\ ~WriteHeld(b)) =>
            /\ b \in DOMAIN mem[a].outgoingEdges
                    <=> a \in DOMAIN mem[b].incomingEdges
            /\ b \in DOMAIN mem[a].outgoingEdges
                    => mem[a].outgoingEdges[b] = mem[b].incomingEdges[a]


\* The query is in progress: it holds its read lock on the registry.
QueryHolds == <<GraphLock, QueryThread>> \in locks.r

\* C17 (as stated): value updates do not wait for the search.  While a
\* query is in progress and nobody else holds or waits for the registry
\* mutex, a Set of a registered key that has reached its g.Lock() goes on
\* without waiting for the query.
C17_SetDoesNotWait ==
    \A t \in Threads :
        (/\ QueryHolds
         /\ th[t].op = "Set" /\ th[t].pc = "lock"
         /\ get(th[t].a) # Nil
         /\ \A u \in Threads \ {t} :
                <<GraphLock, u>> \notin locks.w \cup locks.r \cup locks.p)
            => (CanLock(GraphLock, t) /\ Acquires(GraphLock))

\* C17 (amended): value updates wait for the search.  While a query is in
\* progress, a Set that has not returned is still at its g.Lock() and holds
\* no mutex and waits for no vertex's mutex, so the query never waits for
\* it; and no step taken while the query is in progress changes a value or
\* the registry.
C17_SetWaitsForQuery ==
    /\ [](QueryHolds =>
            \A t \in Threads :
                th[t].op = "Set" =>
                    /\ th[t].pc \in {"lock", "done"}
                    /\ \A l \in {GraphLock} \cup DOMAIN mem :
                            /\ <<l, t>> \notin locks.w
                            /\ <<l, t>> \in locks.p => l = GraphLock)
    /\ [][(QueryHolds /\ QueryHolds') =>
            /\ vertices' = vertices
            /\ \A r \in DOMAIN mem : mem'[r].value = mem[r].value]_vars

\* The query is in its loop, and a Set of a registered key has announced
\* itself at the registry mutex and waits for the query to leave.
C17_Witness ==
    /\ QueryHolds
    /\ pc \in {"loop", "range"}
    /\ \E t \in Threads :
        /\ th[t].op = "Set" /\ th[t].pc = "lock"
        /\ get(th[t].a) # Nil
        /\ <<GraphLock, t>> \in locks.p


\* C19: IsConnected's choice of the map to scan is functionally irrelevant.
\* In every state in which IsConnected scans (it holds the read locks of
\* both vertices; the registry lock is released, so Delete, Connect and
\* Disconnect may be under way), the scan of fromV.outgoingEdges and the
\* scan of toV.incomingEdges give the same (exists, weight).
C19_ScanChoiceIrrelevant ==
    \A t \in Threads :
        (th[t].op = "IsConnected" /\ th[t].pc = "scan") =>
            ScanOutgoing(th[t].fromV, th[t].toV)
                = ScanIncoming(th[t].fromV, th[t].toV)

\* The mutexes of vertices the caller t holds for writing.
VertexLocksHeld(t) == {l \in DOMAIN mem : <<l, t>> \in locks.w}

\* C20: Delete's locking protocol.  While a Delete holds the registry mutex
\* for writing it holds at most one vertex mutex, and none while it waits
\* for one; no Connect or Disconnect is between its g.RLock() and its
\* g.RUnlock(), so none holds or waits for a vertex mutex; and no query is
\* between its g.RLock() and its g.RUnlock().  A Delete that still waits for
\* the registry mutex holds no mutex.
C20_DeleteLocking ==
    \A t \in Threads :
        th[t].op = "Delete" =>
            /\ <<GraphLock, t>> \notin locks.w => VertexLocksHeld(t) = {}
            /\ <<GraphLock, t>> \in locks.w =>
                /\ Cardinality(VertexLocksHeld(t)) <= 1
                /\ (\E l \in DOMAIN mem : <<l, t>> \in locks.p)
                        => VertexLocksHeld(t) = {}
                /\ \A u \in Threads \ {t} :
                        th[u].op \in {"Connect", "Disconnect"} =>
                            /\ th[u].pc \in {"rlock", "done"}
                            /\ <<GraphLock, u>> \notin locks.r
                            /\ \A l \in DOMAIN mem :
                                    <<l, u>> \notin locks.w \cup locks.p
                /\ ~QueryHolds
                /\ pc \in {"idle", "start", "returned"}

\* A Delete holds the registry mutex and the mutex of one neighbour, while
\* a Connect that names the deleted vertex and a query wait to start.
C20_Witness ==
    \E t \in Threads, u \in Threads :
        /\ th[t].op = "Delete" /\ th[t].pc \in {"inLocked", "outLocked"}
        /\ Cardinality(VertexLocksHeld(t)) = 1
        /\ th[u].op = "Connect" /\ th[u].pc = "rlock"
        /\ th[t].a \in {th[u].a, th[u].b}
        /\ pc = "start"


\* The callers that read (look up in or iterate over) v.outgoingEdges now:
\* the query in its range loop over it (line 55), an IsConnected at its scan
\* (lines 360-367), a Delete of v in its second loop (line 223).
OutgoingReaders(v) ==
    {q \in {QueryThread} : Ranging(v)}
    \cup {t \in Threads : \/ /\ th[t].op = "IsConnected"
                               /\ th[t].pc = "scan"
                               /\ th[t].fromV = v
                            \/ /\ th[t].op = "Delete"
                               /\ th[t].pc \in {"out", "outLocked"}
                               /\ th[t].fromV = v}

\* The callers that read v.incomingEdges now: an IsConnected at its scan
\* (lines 360, 368-375), a Delete of v in its first loop (line 215).
IncomingReaders(v) ==
    {t \in Threads : \/ /\ th[t].op = "IsConnected"
                          /\ th[t].pc = "scan"
                          /\ th[t].toV = v
                       \/ /\ th[t].op = "Delete"
                          /\ th[t].pc \in {"in", "inLocked"}
                          /\ th[t].fromV = v}

\* The callers that are at a write of v.outgoingEdges (lines 289, 322, 218).
OutgoingWriters(v) ==
    {t \in Threads : \/ /\ th[t].op \in {"Connect", "Disconnect"}
                          /\ th[t].pc = "write"
                          /\ th[t].fromV = v
                       \/ /\ th[t].op = "Delete"
                          /\ th[t].pc = "inLocked"
                          /\ th[t].toV = v}

\* The callers that are at a write of v.incomingEdges (lines 290, 323, 226).
IncomingWriters(v) ==
    {t \in Threads : \/ /\ th[t].op \in {"Connect", "Disconnect"}
                          /\ th[t].pc = "write"
                          /\ th[t].toV = v
                       \/ /\ th[t].op = "Delete"
                          /\ th[t].pc = "outLocked"
                          /\ th[t].toV = v}

\* C21: edge maps are only accessed under their lock.  In every
\* interleaving, while a caller is at a write (insert or delete) of a
\* vertex's outgoingEdges or incomingEdges no other caller reads that map;
\* in particular the query's range loop over the map GetOutgoing returned
\* never overlaps a write to it by a concurrent Connect or Disconnect.
C21_MapsUnderLock ==
    \A v \in DOMAIN mem :
        /\ \A w \in OutgoingWriters(v) : OutgoingReaders(v) \ {w} = {}
        /\ \A w \in IncomingWriters(v) : IncomingReaders(v) \ {w} = {}


\* ----------------------------------------- claims on the relaxation rule
\* The open queue holds exactly one entry for each open vertex, the item
\* openList records for it, and none for a closed vertex.
QueueMatchesOpenList ==
    /\ openQueue = {openList[v] : v \in DOMAIN openList}
    /\ \A v \in DOMAIN openList :
            /\ openList[v].v = v
            /\ Cardinality({i \in openQueue : i.v = v}) = 1
    /\ \A i \in openQueue : i.v \notin DOMAIN closedList
    /\ DOMAIN openList \cap DOMAIN closedList = {}

\* A step of the search leaves every closed vertex closed with the item it
\* was closed with, and opens no closed vertex.
ClosedStaysClosed ==
    \A v \in DOMAIN closedList :
        /\ v \in DOMAIN closedList'
        /\ closedList'[v] = closedList[v]
        /\ v \notin DOMAIN openList'

\* The neighbour an iteration of the range loop handles, and the candidate
\* accumulated cost the iteration computes for it.
Relaxed == pending \ pending'

Candidate(neighbor) ==
    closedList[current].distanceFromStart + GetOutgoing(current)[neighbor]

\* C22 (as stated): relaxation rule and open/closed bookkeeping.  When a
\* vertex is expanded a closed neighbour is never re-opened; the entry of
\* an open neighbour (recorded cost, predecessor, queue entry) is replaced
\* only when the candidate accumulated cost is strictly lower than the
\* recorded cost, an equal candidate cost leaves it untouched; and at every
\* loop iteration the open queue holds exactly one entry for each open
\* vertex and none for a closed vertex.
C22_StrictRelaxation ==
    /\ [](pc \in {"loop", "range"} => QueueMatchesOpenList)
    /\ [][pc = "range" =>
            /\ ClosedStaysClosed
            /\ \A n \in DOMAIN openList :
                    /\ n \in DOMAIN openList'
                    /\ openList'[n] # openList[n] =>
                            /\ n \in Relaxed
                            /\ Candidate(n) < openList[n].distanceFromStart
                            /\ openList'[n].distanceFromStart = Candidate(n)
                            /\ openList'[n].prev = current]_vars

\* C22 (amended): when a vertex is expanded a closed neighbour is never
\* re-opened; the entry of an open neighbour is kept only when its recorded
\* cost is strictly lower than the candidate accumulated cost, and is
\* replaced (cost, predecessor, queue entry) when the candidate is lower or
\* equal; a neighbour that is neither open nor closed is opened; and at
\* every loop iteration the open queue holds exactly one entry for each
\* open vertex and none for a closed vertex.
C22_Relaxation ==
    /\ [](pc \in {"loop", "range"} => QueueMatchesOpenList)
    /\ [][pc = "range" =>
            /\ ClosedStaysClosed
            /\ \A n \in DOMAIN openList \ Relaxed :
                    n \in DOMAIN openList' /\ openList'[n] = openList[n]
            /\ DOMAIN openList' \subseteq DOMAIN openList \cup Relaxed
            /\ \A n \in Relaxed \ DOMAIN closedList :
                    /\ n \in DOMAIN openList'
                    /\ IF /\ n \in DOMAIN openList
                          /\ openList[n].distanceFromStart < Candidate(n)
                       THEN openList'[n] = openList[n]
                       ELSE /\ openList'[n].distanceFromStart = Candidate(n)
                            /\ openList'[n].prev = current
                            /\ openList'[n].priority =
                                  Candidate(n) + heuristic[mem[n].key]]_vars

\* The vertex being expanded has taken over an open neighbour at an equal
\* cost: the neighbour's entry names it as predecessor, while a vertex
\* expanded before it offers the neighbour the same accumulated cost.
C22_Witness ==
    /\ pc \in {"loop", "range"}
    /\ current # Nil
    /\ \E n \in DOMAIN openList \ pending :
            /\ openList[n].prev = current
            /\ \E u \in DOMAIN closedList \ {current, Nil} :
                    /\ n \in DOMAIN GetOutgoing(u)
                    /\ closedList[u].distanceFromStart + GetOutgoing(u)[n]
                            = openList[n].distanceFromStart

=============================================================================
